---------------------------- MODULE Spec2Model ----------------------------
(***************************************************************************)
(* The retrieval layer of rustlog (src/db/mod.rs): scans of a channel's or *)
(* a user's bucket, bucket discovery, two-phase random sampling and bulk   *)
(* erasure of a user, run against the `message` table of the store.        *)
(*                                                                         *)
(* The store is the external collaborator.  It is modelled by what its SQL *)
(* dialect documents: a SELECT without ORDER BY yields the rows in the     *)
(* table's current physical order, ORDER BY leaves the relative order of   *)
(* rows with equal keys unspecified, a scalar subquery without a row is    *)
(* NULL, and ALTER TABLE ... DELETE is a mutation applied some time after  *)
(* it has been accepted.  Times are seconds since the epoch, in UTC.       *)
(*                                                                         *)
(* A caller holds one request (an operation and its arguments) and may run *)
(* it any number of times.  A random-sample call is two steps, one for     *)
(* each query, so that the store can act between them.  The write path is  *)
(* not part of this file: the table only loses rows.                       *)
(***************************************************************************)
EXTENDS Integers, Sequences, FiniteSets, TLC

\* ------------------------------------------------------------------ bounds

\* The most rows the table starts with.
MaxRows == 3

\* The largest LIMIT and the largest OFFSET a request passes.
MaxLimit == 2

\* ------------------------------------------------------------ value types

\* Option<T>: None is the empty sequence, Some(x) the sequence of x alone.
None == << >>

Some(x) == << x >>

IsSome(o) == o # << >>

Reverse(s) == [i \in 1..Len(s) |-> s[Len(s) + 1 - i]]

Min(a, b) == IF a <= b THEN a ELSE b

\* The sequences that hold every element of the finite set S exactly once.
Orderings(S) ==
    LET n == Cardinality(S)
    IN  {p \in [1..n -> S] : \A i, j \in 1..n : i # j => p[i] # p[j]}

\* --------------------------------------------------------------- calendar

SecondsPerDay == 24 * 60 * 60

\* chrono's NaiveDateTime::from_timestamp_opt(t, 0) followed by year(),
\* month() and day(): the proleptic Gregorian date of the day that holds
\* second t, computed from the day number as the civil-from-days algorithm
\* does (eras of 146097 days, years starting in March).
CivilFromDays(z0) ==
    LET z   == z0 + 719468
        era == z \div 146097
        doe == z - era * 146097
        yoe == (doe - doe \div 1460 + doe \div 36524 - doe \div 146096) \div 365
        doy == doe - (365 * yoe + yoe \div 4 - yoe \div 100)
        mp  == (5 * doy + 2) \div 153
        d   == doy - (153 * mp + 2) \div 5 + 1
        m   == IF mp < 10 THEN mp + 3 ELSE mp - 9
        y   == yoe + era * 400 + (IF m <= 2 THEN 1 ELSE 0)
    IN  [year |-> y, month |-> m, day |-> d]

\* The store's reading of a 'YYYY-MM-DD' text as a date: its day number.
DaysFromCivil(y0, m, d) ==
    LET y   == IF m <= 2 THEN y0 - 1 ELSE y0
        era == y \div 400
        yoe == y - era * 400
        mp  == IF m > 2 THEN m - 3 ELSE m + 9
        doy == (153 * mp + 2) \div 5 + d - 1
        doe == yoe * 365 + yoe \div 4 - yoe \div 100 + doy
    IN  era * 146097 + doe - 719468

\* toStartOfDay(timestamp), as seconds.
toStartOfDay(t) == (t \div SecondsPerDay) * SecondsPerDay

\* toStartOfMonth(timestamp), as the seconds of the month's first midnight.
toStartOfMonth(t) ==
    LET c == CivilFromDays(t \div SecondsPerDay)
    IN  DaysFromCivil(c.year, c.month, 1) * SecondsPerDay

\* ----------------------------------------------------------------- inputs

Channels == {"c1", "c2"}

Users == {"u1", "u2"}

\* The rows the table is drawn from.  Rows 1 and 2 share channel, user and
\* timestamp; row 3 ends the day rows 1 and 2 are in, row 4 starts the next
\* day, row 5 ends the previous month and year, row 6 is of another channel.
Corpus ==
    << [channel_id |-> "c1", user_id |-> "u1", timestamp |-> 1704448800, raw |-> "a"],
       [channel_id |-> "c1", user_id |-> "u1", timestamp |-> 1704448800, raw |-> "b"],
       [channel_id |-> "c1", user_id |-> "u2", timestamp |-> 1704499199, raw |-> "c"],
       [channel_id |-> "c1", user_id |-> "u1", timestamp |-> 1704499200, raw |-> "d"],
       [channel_id |-> "c1", user_id |-> "u2", timestamp |-> 1704067199, raw |-> "e"],
       [channel_id |-> "c2", user_id |-> "u1", timestamp |-> 1704448800, raw |-> "f"] >>

\* The days a channel scan asks for (ChannelLogDate), one of them empty.
ChannelLogDates ==
    { [year |-> 2024, month |-> 1, day |-> 5],
      [year |-> 2024, month |-> 1, day |-> 6],
      [year |-> 2023, month |-> 12, day |-> 31],
      [year |-> 2024, month |-> 2, day |-> 29] }

\* The months a user scan asks for (UserLogDate), one of them empty.
UserLogDates ==
    { [year |-> 2024, month |-> 1],
      [year |-> 2023, month |-> 12],
      [year |-> 2024, month |-> 2] }

\* Option<u64> of a limit or an offset.
Paginations == {None} \cup {Some(n) : n \in 0..MaxLimit}


\* ------------------------------------------------------------------ state

VARIABLES
    message,    \* the store's table: its rows, in their physical order
    written,    \* every row the write path has put in the table
    pending,    \* users whose delete mutation the store accepted, not yet applied
    done,       \* users whose delete mutation the store has applied
    call,       \* the random-sample call in flight, between its two queries
    request,    \* the scan request the caller has handed in, if any
    query,      \* the text of the last scan query sent to the store
    ret         \* what the last operation that returned gave its caller

vars == << message, written, pending, done, call, request, query, ret >>

Rows(tbl) == {tbl[i] : i \in 1..Len(tbl)}

Raws(rows) == [i \in 1..Len(rows) |-> rows[i].raw]

NoCall ==
    [pc |-> "idle", op |-> "", channel_id |-> "", user_id |-> None,
     total_count |-> 0, count_queries |-> 0, fetch_queries |-> 0]

NoRet ==
    [op |-> "", channel_id |-> "", user_id |-> None, log_date |-> None,
     reverse |-> FALSE, limit |-> None, offset |-> None,
     status |-> "", lines |-> << >>, dates |-> << >>]

\* The table holds at most MaxRows rows of the corpus, each once, in the
\* order they were written; no mutation is known to the store; the caller
\* holds one of the given requests.
InitWith(requests) ==
    /\ \E S \in SUBSET (1..Len(Corpus)) :
          /\ Cardinality(S) <= MaxRows
          /\ message = SelectSeq(Corpus, LAMBDA r : \E i \in S : Corpus[i] = r)
    /\ written = message
    /\ pending = {}
    /\ done = {}
    /\ call = NoCall
    /\ request \in requests
    /\ query = ""
    /\ ret = NoRet

\* ---------------------------------------------------------- query builder

\* apply_limit_offset with its two steps in the other order.
apply_limit_offset_OffsetFirst(q, limit, offset) ==
    LET q1 == IF IsSome(offset) THEN q \o " OFFSET " \o ToString(offset[1]) ELSE q
    IN  IF IsSome(limit) THEN q1 \o " LIMIT " \o ToString(limit[1]) ELSE q1

apply_limit_offset(q, limit, offset) ==
    LET q1 == IF IsSome(limit) THEN q \o " LIMIT " \o ToString(limit[1]) ELSE q
    IN  IF IsSome(offset) THEN q1 \o " OFFSET " \o ToString(offset[1]) ELSE q1

read_channel_query(reverse) ==
    "SELECT raw FROM message WHERE channel_id = ? AND toStartOfDay(timestamp) = ? ORDER BY timestamp "
        \o (IF reverse THEN "DESC" ELSE "ASC")

read_user_query(reverse) ==
    "SELECT raw FROM message WHERE channel_id = ? AND user_id = ? AND toStartOfMonth(timestamp) = ? ORDER BY timestamp "
        \o (IF reverse THEN "DESC" ELSE "ASC")

\* ------------------------------------------------- the store's evaluation

\* The store's reading of a bound date text, given by its three numbers.
DateOfText(b) == DaysFromCivil(b[1], b[2], b[3]) * SecondsPerDay

\* WHERE channel_id = ? [AND user_id = ?]
MatchesFilter(r, channel_id, user_id) ==
    /\ r.channel_id = channel_id
    /\ IsSome(user_id) => r.user_id = user_id[1]

\* WHERE channel_id = ? AND toStartOfDay(timestamp) = ?
ChannelDayRows(tbl, channel_id, day) ==
    {r \in Rows(tbl) : /\ r.channel_id = channel_id
                       /\ toStartOfDay(r.timestamp) = DateOfText(day)}

\* WHERE channel_id = ? AND user_id = ? AND toStartOfMonth(timestamp) = ?
UserMonthRows(tbl, channel_id, user_id, month) ==
    {r \in Rows(tbl) : /\ r.channel_id = channel_id
                       /\ r.user_id = user_id
                       /\ toStartOfMonth(r.timestamp) = DateOfText(month)}

\* ORDER BY timestamp ASC | DESC: every order of the rows the clause allows.
\* Rows of one timestamp come in an order the store does not specify.
OrderByTimestamp(S, reverse) ==
    {p \in Orderings(S) :
        \A i \in 1..(Len(p) - 1) :
            IF reverse THEN p[i].timestamp >= p[i + 1].timestamp
                       ELSE p[i].timestamp <= p[i + 1].timestamp}

\* LIMIT and OFFSET with the limit applied before the rows are skipped.
LimitOffset_LimitFirst(rows, limit, offset) ==
    LET kept == IF IsSome(limit) THEN SubSeq(rows, 1, Min(limit[1], Len(rows))) ELSE rows
        skip == IF IsSome(offset) THEN Min(offset[1], Len(kept)) ELSE 0
    IN  SubSeq(kept, skip + 1, Len(kept))

\* [LIMIT n] [OFFSET m]: skip the first m rows, keep at most n of the rest.
LimitOffset(rows, limit, offset) ==
    LET skip == IF IsSome(offset) THEN Min(offset[1], Len(rows)) ELSE 0
        rest == SubSeq(rows, skip + 1, Len(rows))
    IN  IF IsSome(limit) THEN SubSeq(rest, 1, Min(limit[1], Len(rest))) ELSE rest

\* LogsStream::new_cursor and the stream read to its end: the lines the
\* cursor yields, in the cursor's order; an empty cursor is no error.
new_cursor(rows) == [status |-> "Ok", lines |-> Raws(rows)]

\* ------------------------------------------------------------------ scans

read_channel(channel_id, log_date, reverse, limit, offset) ==
    /\ query' = apply_limit_offset(read_channel_query(reverse), limit, offset)
    /\ \E sorted \in OrderByTimestamp(
                        ChannelDayRows(message, channel_id,
                            << log_date.year, log_date.month, log_date.day >>),
                        reverse) :
          LET stream == new_cursor(LimitOffset(sorted, limit, offset))
          IN  ret' = [NoRet EXCEPT !.op = "read_channel",
                                   !.channel_id = channel_id,
                                   !.log_date = log_date,
                                   !.reverse = reverse,
                                   !.limit = limit,
                                   !.offset = offset,
                                   !.status = stream.status,
                                   !.lines = stream.lines]
    /\ UNCHANGED << message, written, pending, done, call, request >>

read_user(channel_id, user_id, log_date, reverse, limit, offset) ==
    /\ query' = apply_limit_offset(read_user_query(reverse), limit, offset)
    /\ \E sorted \in OrderByTimestamp(
                        UserMonthRows(message, channel_id, user_id,
                            << log_date.year, log_date.month, 1 >>),
                        reverse) :
          LET stream == new_cursor(LimitOffset(sorted, limit, offset))
          IN  ret' = [NoRet EXCEPT !.op = "read_user",
                                   !.channel_id = channel_id,
                                   !.user_id = Some(user_id),
                                   !.log_date = log_date,
                                   !.reverse = reverse,
                                   !.limit = limit,
                                   !.offset = offset,
                                   !.status = stream.status,
                                   !.lines = stream.lines]
    /\ UNCHANGED << message, written, pending, done, call, request >>

\* -------------------------------------------------------------- discovery

\* GROUP BY date ORDER BY date DESC: each distinct value once, largest first.
GroupByDesc(S) ==
    CHOOSE p \in Orderings(S) : \A i \in 1..(Len(p) - 1) : p[i] > p[i + 1]

\* SELECT toDateTime(toStartOfDay(timestamp)) AS date ... WHERE channel_id = ?
ChannelDayStarts(tbl, channel_id) ==
    GroupByDesc({toStartOfDay(r.timestamp) :
                    r \in {x \in Rows(tbl) : x.channel_id = channel_id}})

\* The user discovery query with the day truncation of the channel query.
UserMonthStarts_ByDay(tbl, channel_id, user_id) ==
    GroupByDesc({toStartOfDay(r.timestamp) :
                    r \in {x \in Rows(tbl) : /\ x.channel_id = channel_id
                                            /\ x.user_id = user_id}})

\* SELECT toDateTime(toStartOfMonth(timestamp)) AS date ...
\*   WHERE channel_id = ? AND user_id = ?
UserMonthStarts(tbl, channel_id, user_id) ==
    GroupByDesc({toStartOfMonth(r.timestamp) :
                    r \in {x \in Rows(tbl) : /\ x.channel_id = channel_id
                                            /\ x.user_id = user_id}})

\* The closure of read_available_channel_logs: a bucket start as a date
\* with its day.
ChannelAvailableLogDate(timestamp) ==
    LET naive == CivilFromDays(timestamp \div SecondsPerDay)
    IN  [year |-> ToString(naive.year), month |-> ToString(naive.month),
         day |-> Some(ToString(naive.day))]

\* The closure of read_available_user_logs: a bucket start as a date
\* without a day.
UserAvailableLogDate(timestamp) ==
    LET naive == CivilFromDays(timestamp \div SecondsPerDay)
    IN  [year |-> ToString(naive.year), month |-> ToString(naive.month),
         day |-> None]

\* Discovery that reports an empty answer as NotFound.
AvailableResult_NotFoundIfEmpty(dates) ==
    IF dates = << >> THEN [status |-> "NotFound", dates |-> << >>]
                     ELSE [status |-> "Ok", dates |-> dates]

\* Ok(dates): discovery returns what it collected, whatever its length.
AvailableResult(dates) == [status |-> "Ok", dates |-> dates]

read_available_channel_logs(channel_id) ==
    /\ LET timestamps == ChannelDayStarts(message, channel_id)
           result == AvailableResult(
                        [i \in 1..Len(timestamps) |->
                            ChannelAvailableLogDate(timestamps[i])])
       IN  ret' = [NoRet EXCEPT !.op = "read_available_channel_logs",
                                !.channel_id = channel_id,
                                !.status = result.status,
                                !.dates = result.dates]
    /\ UNCHANGED << message, written, pending, done, call, request, query >>

read_available_user_logs(channel_id, user_id) ==
    /\ LET timestamps == UserMonthStarts(message, channel_id, user_id)
           result == AvailableResult(
                        [i \in 1..Len(timestamps) |->
                            UserAvailableLogDate(timestamps[i])])
       IN  ret' = [NoRet EXCEPT !.op = "read_available_user_logs",
                                !.channel_id = channel_id,
                                !.user_id = Some(user_id),
                                !.status = result.status,
                                !.dates = result.dates]
    /\ UNCHANGED << message, written, pending, done, call, request, query >>

\* --------------------------------------------------------------- sampling

\* The rows of the table matching the filter, in the table's physical order.
Matching(tbl, channel_id, user_id) ==
    SelectSeq(tbl, LAMBDA r : MatchesFilter(r, channel_id, user_id))

\* SELECT count(*) FROM message WHERE channel_id = ? [AND user_id = ?]
CountRows(tbl, channel_id, user_id) == Len(Matching(tbl, channel_id, user_id))

\* (0..total_count).choose(&mut rng): the offsets the draw can give.
Offsets(total_count) == 0..(total_count - 1)

\* The subquery with an offset past the end read as the last row.
RandomTimestamp_Clamped(tbl, channel_id, user_id, offset) ==
    LET rows == Matching(tbl, channel_id, user_id)
    IN  IF rows # << >> THEN Some(rows[Min(offset + 1, Len(rows))].timestamp) ELSE None

\* (SELECT timestamp FROM message WHERE ... LIMIT 1 OFFSET ?): the timestamp
\* of the row at the offset, NULL (None) when the offset is past the end.
RandomTimestamp(tbl, channel_id, user_id, offset) ==
    LET rows == Matching(tbl, channel_id, user_id)
    IN  IF offset < Len(rows) THEN Some(rows[offset + 1].timestamp) ELSE None

\* The sample query with the outer SELECT filtered by timestamp alone.
SampleRows_AnyChannel(tbl, channel_id, user_id, offset) ==
    LET random_timestamp == RandomTimestamp(tbl, channel_id, user_id, offset)
    IN  SelectSeq(tbl, LAMBDA r : /\ IsSome(random_timestamp)
                                  /\ r.timestamp = random_timestamp[1])

\* SELECT raw FROM message WHERE ... AND timestamp = random_timestamp
SampleRows(tbl, channel_id, user_id, offset) ==
    LET random_timestamp == RandomTimestamp(tbl, channel_id, user_id, offset)
    IN  SelectSeq(tbl, LAMBDA r : /\ MatchesFilter(r, channel_id, user_id)
                                  /\ IsSome(random_timestamp)
                                  /\ r.timestamp = random_timestamp[1])

\* fetch_optional::<String>(): the first row's text, or nothing.
fetch_optional(rows) == IF rows = << >> THEN None ELSE Some(rows[1].raw)

\* The first query of a sample call and its `total_count == 0` return.
SampleCount(op, channel_id, user_id) ==
    /\ call.pc \in {"idle", "done"}
    /\ LET total_count == CountRows(message, channel_id, user_id)
       IN  IF total_count = 0
           THEN /\ call' = [NoCall EXCEPT !.pc = "done", !.op = op,
                                          !.channel_id = channel_id,
                                          !.user_id = user_id,
                                          !.count_queries = 1]
                /\ ret' = [NoRet EXCEPT !.op = op, !.channel_id = channel_id,
                                        !.user_id = user_id,
                                        !.status = "NotFound"]
           ELSE /\ call' = [NoCall EXCEPT !.pc = "counted", !.op = op,
                                          !.channel_id = channel_id,
                                          !.user_id = user_id,
                                          !.total_count = total_count,
                                          !.count_queries = 1]
                /\ ret' = ret
    /\ UNCHANGED << message, written, pending, done, request, query >>

\* The offset draw and the second query of a sample call, and its return.
\* The returned record keeps the offset that was drawn.
SampleFetch(op) ==
    /\ call.pc = "counted"
    /\ call.op = op
    /\ \E offset \in Offsets(call.total_count) :
          LET text == fetch_optional(
                         SampleRows(message, call.channel_id, call.user_id, offset))
          IN  ret' = [NoRet EXCEPT !.op = op, !.channel_id = call.channel_id,
                                   !.user_id = call.user_id,
                                   !.offset = Some(offset),
                                   !.status = IF IsSome(text) THEN "Ok" ELSE "NotFound",
                                   !.lines = text]
    /\ call' = [call EXCEPT !.pc = "done", !.fetch_queries = @ + 1]
    /\ UNCHANGED << message, written, pending, done, request, query >>

read_random_user_line_count(channel_id, user_id) ==
    SampleCount("read_random_user_line", channel_id, Some(user_id))

read_random_user_line_fetch == SampleFetch("read_random_user_line")

read_random_channel_line_count(channel_id) ==
    SampleCount("read_random_channel_line", channel_id, None)

read_random_channel_line_fetch == SampleFetch("read_random_channel_line")

\* ---------------------------------------------------------------- erasure

\* ALTER TABLE message DELETE WHERE user_id = ?: the store accepts the
\* mutation (Ok) or rejects the request (the error is passed on).
delete_user_logs(user_id) ==
    /\ \E accepted \in BOOLEAN :
          /\ pending' = IF accepted THEN pending \cup {user_id} ELSE pending
          /\ ret' = [NoRet EXCEPT !.op = "delete_user_logs",
                                  !.user_id = Some(user_id),
                                  !.status = IF accepted THEN "Ok" ELSE "StorageError"]
    /\ UNCHANGED << message, written, done, call, request, query >>

\* A mutation that removes the user's rows of channel c1 alone.
RowsAfterDelete_OneChannel(tbl, user_id) ==
    SelectSeq(tbl, LAMBDA r : ~(r.user_id = user_id /\ r.channel_id = "c1"))

\* A mutation that removes the rows of every user but the one named.
RowsAfterDelete_Others(tbl, user_id) ==
    SelectSeq(tbl, LAMBDA r : r.user_id = user_id)

\* DELETE WHERE user_id = ?: the table without the rows of that user.
RowsAfterDelete(tbl, user_id) ==
    SelectSeq(tbl, LAMBDA r : r.user_id # user_id)

\* The store applies the mutation it accepted for a user.
ApplyMutation(user_id) ==
    /\ user_id \in pending
    /\ message' = RowsAfterDelete(message, user_id)
    /\ pending' = pending \ {user_id}
    /\ done' = done \cup {user_id}
    /\ UNCHANGED << written, call, request, query, ret >>

\* The store rewrites its parts: the rows stay, their physical order changes.
Reorder ==
    /\ \E tbl \in Orderings(Rows(message)) :
          /\ tbl # message
          /\ message' = tbl
    /\ UNCHANGED << written, pending, done, call, request, query, ret >>

\* ---------------------------------------------------------- specifications

\* The requests a caller can hold: an operation and its arguments.
ScanRequests(paginations) ==
    [op : {"read_channel"}, channel_id : Channels, user_id : {None},
     log_date : ChannelLogDates, reverse : BOOLEAN,
     limit : paginations, offset : paginations]
    \cup
    [op : {"read_user"}, channel_id : Channels, user_id : {Some(u) : u \in Users},
     log_date : UserLogDates, reverse : BOOLEAN,
     limit : paginations, offset : paginations]

DiscoveryRequests ==
    [op : {"read_available_channel_logs"}, channel_id : Channels, user_id : {None}]
    \cup
    [op : {"read_available_user_logs"}, channel_id : Channels,
     user_id : {Some(u) : u \in Users}]

SampleRequests ==
    [op : {"read_random_channel_line"}, channel_id : Channels, user_id : {None}]
    \cup
    [op : {"read_random_user_line"}, channel_id : Channels,
     user_id : {Some(u) : u \in Users}]

\* The caller runs the operation it holds a request for, any number of times.
ServeReadChannel ==
    /\ request.op = "read_channel"
    /\ read_channel(request.channel_id, request.log_date,
                    request.reverse, request.limit, request.offset)

ServeReadUser ==
    /\ request.op = "read_user"
    /\ read_user(request.channel_id, request.user_id[1], request.log_date,
                 request.reverse, request.limit, request.offset)

ServeAvailableChannelLogs ==
    /\ request.op = "read_available_channel_logs"
    /\ read_available_channel_logs(request.channel_id)

ServeAvailableUserLogs ==
    /\ request.op = "read_available_user_logs"
    /\ read_available_user_logs(request.channel_id, request.user_id[1])

ServeRandomUserLine ==
    /\ request.op = "read_random_user_line"
    /\ \/ read_random_user_line_count(request.channel_id, request.user_id[1])
       \/ read_random_user_line_fetch

ServeRandomChannelLine ==
    /\ request.op = "read_random_channel_line"
    /\ \/ read_random_channel_line_count(request.channel_id)
       \/ read_random_channel_line_fetch

\* Scans and discovery over a table nothing changes.
ReadInit == InitWith(ScanRequests(Paginations) \cup DiscoveryRequests)

ReadNext ==
    \/ ServeReadChannel
    \/ ServeReadUser
    \/ ServeAvailableChannelLogs
    \/ ServeAvailableUserLogs

ReadSpec == ReadInit /\ [][ReadNext]_vars

\* Sampling beside erasure and the store's own steps.
SampleInit == InitWith(SampleRequests)

SampleNext ==
    \/ ServeRandomUserLine
    \/ ServeRandomChannelLine
    \/ \E u \in Users : delete_user_logs(u)
    \/ \E u \in Users : ApplyMutation(u)
    \/ Reorder

SampleSpec == SampleInit /\ [][SampleNext]_vars

\* A user's reads beside erasure; the store applies what it has accepted.
\* The caller holds a sample for a user or an ascending scan of the user's
\* January 2024, the month most rows of the corpus are in.
EraseRequests ==
    {r \in ScanRequests({None}) \cup SampleRequests :
        /\ IsSome(r.user_id)
        /\ r.op = "read_user" =>
              (~r.reverse /\ r.log_date = [year |-> 2024, month |-> 1])}

EraseInit == InitWith(EraseRequests)

EraseNext ==
    \/ ServeReadUser
    \/ ServeRandomUserLine
    \/ \E u \in Users : delete_user_logs(u)
    \/ \E u \in Users : ApplyMutation(u)

\* The store applies every mutation it has accepted: none waits forever.
EraseFairness == \A u \in Users : WF_vars(ApplyMutation(u))

EraseSpec == EraseInit /\ [][EraseNext]_vars /\ EraseFairness

\* Every operation beside erasure, the scans without pagination.  The
\* physical order of the rows matters to sampling alone and changes in
\* SampleSpec.
Init == InitWith(ScanRequests({None}) \cup DiscoveryRequests \cup SampleRequests)

Next ==
    \/ ServeReadChannel
    \/ ServeReadUser
    \/ ServeAvailableChannelLogs
    \/ ServeAvailableUserLogs
    \/ ServeRandomUserLine
    \/ ServeRandomChannelLine
    \/ \E u \in Users : delete_user_logs(u)
    \/ \E u \in Users : ApplyMutation(u)

Spec == Init /\ [][Next]_vars

\* ------------------------------------------------------- claims on reads

IsScan(r) == r.op \in {"read_channel", "read_user"}

IsDiscovery(r) == r.op \in {"read_available_channel_logs", "read_available_user_logs"}

\* The calendar date of the day that holds a row's timestamp.
DateOfRow(r) == CivilFromDays(r.timestamp \div SecondsPerDay)

\* The rows of the table a returned scan was asked for: those of its
\* channel (and user) whose date is in its day (month).
BucketOf(r) ==
    {x \in Rows(message) :
        /\ MatchesFilter(x, r.channel_id, r.user_id)
        /\ DateOfRow(x).year = r.log_date.year
        /\ DateOfRow(x).month = r.log_date.month
        /\ r.op = "read_channel" => DateOfRow(x).day = r.log_date.day}

\* The rows of the table a returned discovery was asked for.
FilterOf(r) == {x \in Rows(message) : MatchesFilter(x, r.channel_id, r.user_id)}

\* Timestamps fall (reverse) or rise along the sequence of rows.
InDirection(rows, reverse) ==
    \A i \in 1..(Len(rows) - 1) :
        IF reverse THEN rows[i].timestamp >= rows[i + 1].timestamp
                   ELSE rows[i].timestamp <= rows[i + 1].timestamp

\* The page of a sequence: what is left after `offset` rows, cut to `limit`.
PageOf(rows, limit, offset) ==
    LET from == IF IsSome(offset) THEN offset[1] ELSE 0
        upto == IF IsSome(limit) THEN Min(Len(rows), from + limit[1]) ELSE Len(rows)
    IN  [i \in 1..(IF upto > from THEN upto - from ELSE 0) |-> rows[from + i]]

\* The row of the table that holds a line (the corpus's lines are distinct).
RowOfLine(line) == CHOOSE x \in Rows(message) : x.raw = line

\* C4: the lines of a scan with reverse=true are exactly the reverse of the
\* lines of the same scan (no limit, no offset) with reverse=false on the
\* same table: whatever a returned scan gave, every answer the store may
\* give to the scan in the other direction is its reverse.
C4_ReverseScanIsReverse ==
    (IsScan(ret) /\ ret.limit = None /\ ret.offset = None) =>
        \A other \in OrderByTimestamp(BucketOf(ret), ~ret.reverse) :
            ret.lines = Reverse(Raws(other))

\* Rows of pairwise different timestamps.
NoTies(S) == \A x, y \in S : x # y => x.timestamp # y.timestamp

\* The relation of C4 where it does hold: over a bucket in which no two rows
\* share a timestamp.
ReverseScanIsReverse_NoTies ==
    (IsScan(ret) /\ ret.limit = None /\ ret.offset = None /\ NoTies(BucketOf(ret))) =>
        \A other \in OrderByTimestamp(BucketOf(ret), ~ret.reverse) :
            ret.lines = Reverse(Raws(other))

\* C7: the query a scan sends is its base text followed by exactly nothing,
\* ' LIMIT n', ' OFFSET m' or ' LIMIT n OFFSET m', according to which of
\* limit and offset are given.
C7_SuffixExact ==
    IsScan(ret) =>
        LET base == IF ret.op = "read_channel"
                    THEN read_channel_query(ret.reverse)
                    ELSE read_user_query(ret.reverse)
        IN  /\ (ret.limit = None /\ ret.offset = None) => query = base
            /\ (IsSome(ret.limit) /\ ret.offset = None) =>
                   query = base \o " LIMIT " \o ToString(ret.limit[1])
            /\ (ret.limit = None /\ IsSome(ret.offset)) =>
                   query = base \o " OFFSET " \o ToString(ret.offset[1])
            /\ (IsSome(ret.limit) /\ IsSome(ret.offset)) =>
                   query = base \o " LIMIT " \o ToString(ret.limit[1])
                                \o " OFFSET " \o ToString(ret.offset[1])

\* C7's case: a descending user scan with both a limit and an offset.
C7_Witness ==
    /\ ret.op = "read_user"
    /\ ret.limit = Some(2)
    /\ ret.offset = Some(1)
    /\ query = "SELECT raw FROM message WHERE channel_id = ? AND user_id = ? AND toStartOfMonth(timestamp) = ? ORDER BY timestamp DESC LIMIT 2 OFFSET 1"

\* C8: a scan yields the page (offset skipped, at most limit kept) of some
\* order of exactly its bucket's rows in which timestamps run in the asked
\* direction; a descending scan with limit n and no offset over at least n
\* rows yields n lines, none older than a row it left out.
C8_ScanYieldsPage ==
    IsScan(ret) =>
        /\ \E rows \in Orderings(BucketOf(ret)) :
              /\ InDirection(rows, ret.reverse)
              /\ ret.lines = Raws(PageOf(rows, ret.limit, ret.offset))
        /\ (/\ ret.reverse
            /\ IsSome(ret.limit)
            /\ ret.offset = None
            /\ Cardinality(BucketOf(ret)) >= ret.limit[1]) =>
               /\ Len(ret.lines) = ret.limit[1]
               /\ \A i \in 1..Len(ret.lines) :
                     \A x \in BucketOf(ret) :
                        (\A j \in 1..Len(ret.lines) : ret.lines[j] # x.raw) =>
                            RowOfLine(ret.lines[i]).timestamp >= x.timestamp

\* C8's case: the three lines of channel c1 on 2024-01-05, scanned
\* descending with limit 2: the day's last line, then one of the two before.
C8_Witness ==
    /\ ret.op = "read_channel"
    /\ ret.reverse
    /\ ret.limit = Some(2)
    /\ ret.offset = None
    /\ Cardinality(BucketOf(ret)) = 3
    /\ ret.lines = << "c", "b" >>

\* The calendar number a discovered date's text stands for.
NumberOf(text, range) == CHOOSE n \in range : ToString(n) = text

\* A discovered date as year * 10000 + month * 100 + day (day 0 if absent).
KeyOf(date) ==
    NumberOf(date.year, 1970..2038) * 10000
        + NumberOf(date.month, 1..12) * 100
        + (IF IsSome(date.day) THEN NumberOf(date.day[1], 1..31) ELSE 0)

\* The key of the bucket a row falls in: its day (channel) or month (user).
BucketKeyOf(x, op) ==
    DateOfRow(x).year * 10000 + DateOfRow(x).month * 100
        + (IF op = "read_available_channel_logs" THEN DateOfRow(x).day ELSE 0)

\* C5: discovery returns its buckets newest first with no key twice, with a
\* day in every entry of channel discovery and in none of user discovery,
\* and one entry for each day (month) that holds a matching row.
C5_DiscoveryDescendingDistinct ==
    IsDiscovery(ret) =>
        /\ \A i \in 1..(Len(ret.dates) - 1) :
              KeyOf(ret.dates[i]) > KeyOf(ret.dates[i + 1])
        /\ \A i \in 1..Len(ret.dates) :
              IsSome(ret.dates[i].day) <=> (ret.op = "read_available_channel_logs")
        /\ {KeyOf(ret.dates[i]) : i \in 1..Len(ret.dates)}
              = {BucketKeyOf(x, ret.op) : x \in FilterOf(ret)}

\* C5's case: user discovery for a user with rows on two days of one month.
C5_Witness ==
    /\ ret.op = "read_available_user_logs"
    /\ Cardinality({DateOfRow(x).day : x \in FilterOf(ret)}) = 2
    /\ ret.dates = << [year |-> "2024", month |-> "1", day |-> None] >>

IsSample(op) == op \in {"read_random_channel_line", "read_random_user_line"}

\* A step of a sample call: its first query or its second.
SampleStep == call' # call \/ (ret' # ret /\ IsSample(ret'.op))

\* The step of a sample call that issues its first query.
CountStep == SampleStep /\ call.pc # "counted"

\* The step of a sample call that issues its second query.
FetchStep == call.pc = "counted" /\ call'.pc = "done"

\* The rows that match the filter of the sample call in flight or returned.
CallRows == Matching(message, call.channel_id, call.user_id)

\* C1: a sample call over no matching row fails with NotFound; a line it
\* returns is the text of a row of the table matching its filter; and over a
\* matching set that is not empty and has not shrunk since the count, it
\* returns a line.
C1_SampleReturnsMatchingLine ==
    [][ /\ CountStep =>
              (CountRows(message, call'.channel_id, call'.user_id) = 0 =>
                  /\ call'.pc = "done"
                  /\ IsSample(ret'.op)
                  /\ ret'.status = "NotFound")
        /\ (SampleStep /\ call'.pc = "done") =>
              /\ ret'.op = call'.op
              /\ ret'.channel_id = call'.channel_id
              /\ ret'.user_id = call'.user_id
              /\ ret'.status \in {"Ok", "NotFound"}
              /\ ret'.status = "Ok" =>
                    /\ Len(ret'.lines) = 1
                    /\ \E r \in Rows(message) :
                          /\ MatchesFilter(r, ret'.channel_id, ret'.user_id)
                          /\ r.raw = ret'.lines[1]
        /\ (FetchStep /\ Len(CallRows) = call.total_count) =>
              ret'.status = "Ok"
      ]_vars

\* C1's case: with no erasure at all, a user sample returned the second of
\* two rows that share a timestamp.
C1_Witness ==
    /\ pending = {}
    /\ done = {}
    /\ call.pc = "done"
    /\ call.total_count = 2
    /\ ret.op = "read_random_user_line"
    /\ ret.status = "Ok"
    /\ ret.lines = << "b" >>

\* C2: when rows were deleted between the two queries, the second query
\* gives NotFound or the line of a row that matches the filter in the table
\* as it is then; an offset at or past the end of what is left gives
\* NotFound; and the call has issued each of its queries once and is over.
C2_RaceDegradesToNotFound ==
    [][ FetchStep =>
          /\ ret'.status \in {"Ok", "NotFound"}
          /\ ret'.status = "Ok" =>
                \E i \in 1..Len(CallRows) : ret'.lines = << CallRows[i].raw >>
          /\ ret'.offset[1] >= Len(CallRows) => ret'.status = "NotFound"
          /\ ret'.status = "NotFound" => ret'.lines = << >>
          /\ call'.count_queries = 1
          /\ call'.fetch_queries = 1
          /\ call'.pc = "done"
      ]_vars

\* C2's case: two rows counted, one deleted before the second query, and
\* the drawn offset 1 is past the one row left.
C2_Witness ==
    /\ call.pc = "done"
    /\ call.total_count = 2
    /\ Len(CallRows) = 1
    /\ ret.op = call.op
    /\ ret.offset = Some(1)
    /\ ret.status = "NotFound"

\* C6: with the matching set as it was counted, every matching row is the
\* line returned for exactly one of the offsets 0..count-1.
C6_EachRowForOneOffset ==
    (call.pc = "counted" /\ Len(CallRows) = call.total_count) =>
        \A i \in 1..Len(CallRows) :
            Cardinality({k \in Offsets(call.total_count) :
                            fetch_optional(SampleRows(message, call.channel_id,
                                                      call.user_id, k))
                                = Some(CallRows[i].raw)}) = 1

\* The relation of C6 where it does hold: over matching rows of which no
\* two share a timestamp.
EachRowForOneOffset_NoTies ==
    (/\ call.pc = "counted"
     /\ Len(CallRows) = call.total_count
     /\ NoTies(Rows(CallRows))) =>
        \A i \in 1..Len(CallRows) :
            Cardinality({k \in Offsets(call.total_count) :
                            fetch_optional(SampleRows(message, call.channel_id,
                                                      call.user_id, k))
                                = Some(CallRows[i].raw)}) = 1

\* ----------------------------------------------------- claims on erasure

\* Every read for the user comes back without a line: the count is zero, no
\* offset fetches a row, and no month has a row to scan, in every channel.
Erased(u) ==
    \A c \in Channels :
        /\ CountRows(message, c, Some(u)) = 0
        /\ \A k \in 0..Len(written) :
              fetch_optional(SampleRows(message, c, Some(u), k)) = None
        /\ \A d \in UserLogDates, reverse \in BOOLEAN :
              OrderByTimestamp(UserMonthRows(message, c, u,
                                   << d.year, d.month, 1 >>), reverse) = {<< >>}

\* C3: once a delete of a user has been accepted, there is a point after
\* which every sample and every scan for that user finds nothing.
C3_ErasedEventually ==
    \A u \in Users : (u \in pending \cup done) ~> [] Erased(u)

\* C3's case: after the delete of u1 was applied, a sample for u1 in a
\* channel that held a row of u1 returned NotFound.
C3_Witness ==
    /\ "u1" \in done
    /\ ret.op = "read_random_user_line"
    /\ ret.user_id = Some("u1")
    /\ ret.status = "NotFound"
    /\ \E r \in Rows(written) : r.user_id = "u1" /\ r.channel_id = ret.channel_id

\* C10: the table is what was written less exactly the rows of the users
\* whose delete has been applied, whatever reads ran in between; a delete is
\* applied only for a user it was asked for.
C10_OnlyErasedRowsRemoved ==
    /\ Rows(message) = {r \in Rows(written) : r.user_id \notin done}
    /\ Len(message) = Cardinality(Rows(message))
    /\ pending \cup done \subseteq Users

\* C10's case: the delete of u1 was applied, rows of u1 are gone and a row
\* of u2 is left, and a scan has returned since.
C10_Witness ==
    /\ done = {"u1"}
    /\ pending = {}
    /\ \E r \in Rows(written) : r.user_id = "u1"
    /\ \E r \in Rows(message) : r.user_id = "u2"
    /\ IsScan(ret)
    /\ ret.lines # << >>

=============================================================================
